---- MODULE Spec2Model ----
(***************************************************************************)
(* Model of the MIR generation pipeline of the QC system backend           *)
(* (src/main.py): the Sequencer generate_mir_number, the Folder            *)
(* Provisioner create_mir_folder, the Document Collector                   *)
(* attach_documents_to_mir, the Merger merge_mir_pdfs and the request      *)
(* handlers create_project and create_mir that drive them.                 *)
(*                                                                         *)
(* A Python str is a sequence of one-character strings, so that the        *)
(* f-string concatenations, `in`, endswith, split, int(), the :04d format  *)
(* and SQL LIKE are computed character by character.  A filesystem path    *)
(* is the sequence of its "/"-separated components.                        *)
(***************************************************************************)
EXTENDS Integers, Sequences, FiniteSets, TLC

VARIABLES
    project,     \* table "project": sequence of rows, row i has id i
    mir_master,  \* table "mir_master": sequence of rows, row i has id i
    mir_panel,   \* table "mir_panel": sequence of rows
    dirs,        \* directories of the filesystem (set of paths)
    files,       \* regular files of the filesystem: path -> content
    pc,          \* per request: position inside create_mir
    call,        \* per request: arguments and locals of create_mir
    resp,        \* per request: the returned response body
    last_call    \* the direct call of a pipeline function made last

vars == <<project, mir_master, mir_panel, dirs, files, pc, call, resp, last_call>>

----------------------------------------------------------------------------
(* Bounds of the model *)

\* number of create_mir requests in flight
NumRequests == 2
\* number of rows the project table may hold
MaxProjects == 1

----------------------------------------------------------------------------
(* Python str and int conversions *)

\* the characters used, in code-point order
Ascii ==
    <<"%", "-", ".",
      "0", "1", "2", "3", "4", "5", "6", "7", "8", "9",
      "A", "B", "C", "D", "E", "F", "G", "H", "I", "J", "K", "L", "M",
      "N", "O", "P", "Q", "R", "S", "T", "U", "V", "W", "X", "Y", "Z",
      "_",
      "a", "b", "c", "d", "e", "f", "g", "h", "i", "j", "k", "l", "m",
      "n", "o", "p", "q", "r", "s", "t", "u", "v", "w", "x", "y", "z">>

Ord(c) ==
    CHOOSE i \in 1..Len(Ascii) : Ascii[i] = c

Digits ==
    <<"0", "1", "2", "3", "4", "5", "6", "7", "8", "9">>

\* str < str: lexicographic by code point, a proper prefix is smaller
StrLess(a, b) ==
    \E k \in 1..(Len(a) + 1) :
        /\ k <= Len(b)
        /\ \A j \in 1..(k - 1) : a[j] = b[j]
        /\ (k = Len(a) + 1 \/ Ord(a[k]) < Ord(b[k]))

\* sub in s
Contains(s, sub) ==
    \E i \in 0..(Len(s) - Len(sub)) : SubSeq(s, i + 1, i + Len(sub)) = sub

\* s.endswith(suffix)
EndsWith(s, suffix) ==
    /\ Len(suffix) <= Len(s)
    /\ SubSeq(s, Len(s) - Len(suffix) + 1, Len(s)) = suffix

\* str(n) for n >= 0
RECURSIVE Str(_)
Str(n) ==
    IF n < 10 THEN <<Digits[n + 1]>>
    ELSE Str(n \div 10) \o <<Digits[(n % 10) + 1]>>

\* f"{n:04d}" for n >= 0: zero-padded to at least 4 digits
RECURSIVE ZeroPad(_, _)
ZeroPad(s, width) ==
    IF Len(s) >= width THEN s ELSE ZeroPad(<<"0">> \o s, width)

Format04d(n) ==
    ZeroPad(Str(n), 4)

\* int(s) for a string of decimal digits
RECURSIVE int(_)
int(s) ==
    IF s = <<>> THEN 0
    ELSE 10 * int(SubSeq(s, 1, Len(s) - 1))
         + ((CHOOSE i \in 1..10 : Digits[i] = s[Len(s)]) - 1)

\* s.split("-")[-1]: what follows the last "-" of s, s itself without one
SplitLast(s) ==
    LET cuts == {i \in 1..Len(s) : s[i] = "-"}
    IN  IF cuts = {} THEN s
        ELSE SubSeq(s, (CHOOSE i \in cuts : \A j \in cuts : j <= i) + 1, Len(s))

\* ASCII case folding of SQLite's LIKE
Fold(c) ==
    IF Ord(c) >= Ord("a") /\ Ord(c) <= Ord("z")
    THEN Ascii[Ord(c) - Ord("a") + Ord("A")]
    ELSE c

\* s LIKE pattern: % matches any run of characters, _ any one character
RECURSIVE Like(_, _)
Like(s, pattern) ==
    IF pattern = <<>> THEN s = <<>>
    ELSE IF Head(pattern) = "%"
         THEN Like(s, Tail(pattern)) \/ (s # <<>> /\ Like(Tail(s), pattern))
         ELSE /\ s # <<>>
              /\ (Head(pattern) = "_" \/ Fold(Head(s)) = Fold(Head(pattern)))
              /\ Like(Tail(s), Tail(pattern))

\* a set as a sequence, in the order of sorted()
RECURSIVE SetToSeq(_)
SetToSeq(S) ==
    IF S = {} THEN <<>>
    ELSE LET x == CHOOSE y \in S : TRUE
         IN  <<x>> \o SetToSeq(S \ {x})

\* sorted() with the order reversed
sorted_reversed(S) ==
    SortSeq(SetToSeq(S), LAMBDA a, b : StrLess(b, a))

sorted(S) ==
    SortSeq(SetToSeq(S), StrLess)

Last(s) ==
    s[Len(s)]

----------------------------------------------------------------------------
(* Record Store *)

\* db.query(Project).filter(Project.id == project_id).first() finds a row
HasProject(tbl, project_id) ==
    project_id \in 1..Len(tbl)

\* Python None, as a path and as a report number
None ==
    <<>>

\* a mir_number column without its unique constraint
UniqueViolation_unchecked(tbl, mir_number) ==
    FALSE

\* MIRMaster.mir_number is declared unique=True: the commit of a row whose
\* number a stored row carries raises IntegrityError
UniqueViolation(tbl, mir_number) ==
    \E i \in 1..Len(tbl) : tbl[i].mir_number = mir_number

----------------------------------------------------------------------------
(* Sequencer *)

generate_mir_number(project_code, tbl) ==
    LET matching == {i \in 1..Len(tbl) :
                        Like(tbl[i].mir_number, project_code \o <<"-", "M", "I", "R", "-", "%">>)}
        last_mir == CHOOSE i \in matching : \A j \in matching : j <= i
        new_num  == IF matching # {}
                    THEN int(SplitLast(tbl[last_mir].mir_number)) + 1
                    ELSE 1
    IN  <<"M", "I", "R", "-">> \o Format04d(new_num)

----------------------------------------------------------------------------
(* Filesystem *)

Prefixes(path) ==
    {SubSeq(path, 1, k) : k \in 1..Len(path)}

exists(d, f, path) ==
    path \in d \/ path \in DOMAIN f

\* os.listdir(path): the names of the entries directly under path
listdir(d, f, path) ==
    {Last(p) : p \in {q \in d \cup DOMAIN f :
                        /\ Len(q) = Len(path) + 1
                        /\ SubSeq(q, 1, Len(path)) = path}}

\* os.makedirs(path) without exist_ok: an existing directory raises too
makedirs_raises_without_exist_ok(d, f, path) ==
    path \in DOMAIN f \/ path \in d

\* os.makedirs(path, exist_ok=True) raises only when path is a regular file
makedirs_raises(d, f, path) ==
    path \in DOMAIN f

\* os.makedirs(path, exist_ok=True): path and its missing ancestors
makedirs(d, path) ==
    d \cup Prefixes(path)

\* open(path, "w") and the writes: the file is created or truncated
write_file(f, path, content) ==
    [p \in DOMAIN f \cup {path} |-> IF p = path THEN content ELSE f[p]]

project_folder(project_id) ==
    <<<<"s", "t", "o", "r", "a", "g", "e">>, <<"p", "r", "o", "j", "e", "c", "t", "_">> \o Str(project_id)>>

----------------------------------------------------------------------------
(* Folder Provisioner *)

subfolders ==
    <<<<"s", "o", "u", "r", "c", "e", "_", "f", "i", "l", "e", "s">>, <<"m", "e", "r", "g", "e", "d", "_", "p", "d", "f">>, <<"f", "i", "n", "a", "l", "_", "m", "i", "r">>>>

\* the makedirs calls of create_mir_folder, in order, up to the first that
\* raises
RECURSIVE make_folders(_, _, _, _)
make_folders(d, f, paths, k) ==
    IF k > Len(paths) THEN [dirs |-> d, raised |-> FALSE]
    ELSE IF makedirs_raises(d, f, paths[k]) THEN [dirs |-> d, raised |-> TRUE]
    ELSE make_folders(makedirs(d, paths[k]), f, paths, k + 1)

\* the lines of index.txt that depend on the arguments: the report
\* identifier and one line per panel
index_lines(project_code, mir_number, panel_ids) ==
    <<<<project_code \o <<"-">> \o mir_number>>>>
    \o [i \in 1..Len(panel_ids) |-> <<panel_ids[i]>>]

create_mir_folder(d, f, tbl, project_id, mir_number, panel_ids) ==
    IF ~HasProject(tbl, project_id)
    THEN [dirs |-> d, files |-> f, raised |-> FALSE]
    ELSE
        LET code       == tbl[project_id].project_code
            mir_folder == project_folder(project_id)
                          \o <<<<"M", "I", "R">>, code \o <<"-">> \o mir_number>>
            made       == make_folders(d, f,
                              <<mir_folder>>
                              \o [i \in 1..Len(subfolders) |->
                                    mir_folder \o <<subfolders[i]>>],
                              1)
            index_file == mir_folder \o <<<<"i", "n", "d", "e", "x", ".", "t", "x", "t">>>>
        IN  IF made.raised \/ index_file \in made.dirs
            THEN [dirs |-> made.dirs, files |-> f, raised |-> TRUE]
            ELSE [dirs   |-> made.dirs,
                  files  |-> write_file(f, index_file,
                                 index_lines(code, mir_number, panel_ids)),
                  raised |-> FALSE]

----------------------------------------------------------------------------
(* Document Collector *)

doc_subfolders ==
    <<<<"c", "h", "e", "c", "k", "l", "i", "s", "t", "s">>, <<"d", "r", "a", "w", "i", "n", "g", "s">>, <<"p", "h", "o", "t", "o", "s">>>>

dest_filename(panel_id, subfolder, filename) ==
    panel_id \o <<"_">> \o subfolder \o <<"_">> \o filename

\* the staging folder attach_documents_to_mir copies into
attach_source_files_folder(project_id, mir_number) ==
    project_folder(project_id)
    \o <<<<"M", "I", "R">>, Str(project_id) \o <<"-">> \o mir_number, <<"s", "o", "u", "r", "c", "e", "_", "f", "i", "l", "e", "s">>>>

\* the inner loop: shutil.copy2 of every regular file of source_path
copy_folder(d, f, source_path, source_files_folder, panel_id, subfolder) ==
    LET names == {n \in listdir(d, f, source_path) :
                     (source_path \o <<n>>) \in DOMAIN f}
        dest(n) == source_files_folder
                   \o <<dest_filename(panel_id, subfolder, n)>>
    IN  [p \in DOMAIN f \cup {dest(n) : n \in names} |->
            IF \E n \in names : dest(n) = p
            THEN f[source_path \o <<CHOOSE n \in names : dest(n) = p>>]
            ELSE f[p]]

\* the two outer loops, k counting the (panel, subfolder) pairs in order
RECURSIVE attach_loop(_, _, _, _, _, _)
attach_loop(d, f, project_id, source_files_folder, panel_ids, k) ==
    IF k >= Len(panel_ids) * Len(doc_subfolders) THEN f
    ELSE
        LET panel_id     == panel_ids[(k \div Len(doc_subfolders)) + 1]
            subfolder    == doc_subfolders[(k % Len(doc_subfolders)) + 1]
            panel_folder == project_folder(project_id)
                            \o <<<<"p", "r", "o", "d", "u", "c", "t", "i", "o", "n", "_", "l", "o", "g", "s">>, panel_id>>
            source_path  == panel_folder \o <<subfolder>>
            copied ==
                IF exists(d, f, panel_folder) /\ source_path \in d
                THEN copy_folder(d, f, source_path, source_files_folder,
                                 panel_id, subfolder)
                ELSE f
        IN  attach_loop(d, copied, project_id, source_files_folder,
                        panel_ids, k + 1)

attach_documents_to_mir(d, f, project_id, mir_number, panel_ids) ==
    LET source_files_folder ==
            attach_source_files_folder(project_id, mir_number)
    IN  IF makedirs_raises(d, f, source_files_folder)
        THEN [dirs |-> d, files |-> f, raised |-> TRUE]
        ELSE [dirs   |-> makedirs(d, source_files_folder),
              files  |-> attach_loop(makedirs(d, source_files_folder), f,
                                     project_id, source_files_folder,
                                     panel_ids, 0),
              raised |-> FALSE]

----------------------------------------------------------------------------
(* Merger *)

ordered_groups ==
    <<<<"M", "I", "R", "_", "F", "O", "R", "M", "_">>, <<"P", "A", "N", "E", "L", "_", "L", "I", "S", "T", "_">>, <<"C", "H", "E", "C", "K", "L", "I", "S", "T">>, <<"D", "R", "A", "W", "I", "N", "G", "_">>, <<"P", "H", "O", "T", "O">>>>

\* the staging folder merge_mir_pdfs reads and the package it writes into
merge_base_path(project_code, project_id, mir_number) ==
    project_folder(project_id)
    \o <<<<"M", "I", "R">>, project_code \o <<"-">> \o mir_number>>

\* the names merger.append is called with, in call order: the two nested
\* loops over ordered_groups and sorted(files)
RECURSIVE merge_appends(_, _)
merge_appends(names, g) ==
    IF g > Len(ordered_groups) THEN <<>>
    ELSE SelectSeq(sorted(names),
                   LAMBDA file : /\ EndsWith(file, <<".", "p", "d", "f">>)
                                 /\ Contains(file, ordered_groups[g]))
         \o merge_appends(names, g + 1)

\* the pages of the appended files, one after the other
RECURSIVE merged_pages(_, _, _)
merged_pages(f, mir_path, appended) ==
    IF appended = <<>> THEN <<>>
    ELSE f[mir_path \o <<Head(appended)>>]
         \o merged_pages(f, mir_path, Tail(appended))

merge_mir_pdfs(d, f, tbl, project_id, mir_number) ==
    IF ~HasProject(tbl, project_id)
    THEN [files |-> f, final_pdf |-> None]
    ELSE
        LET base_path  == merge_base_path(tbl[project_id].project_code,
                                          project_id, mir_number)
            mir_path   == base_path \o <<<<"s", "o", "u", "r", "c", "e", "_", "f", "i", "l", "e", "s">>>>
            output_pdf == base_path \o <<<<"F", "I", "N", "A", "L", "_", "M", "I", "R", ".", "p", "d", "f">>>>
        IN  IF ~exists(d, f, mir_path)
            THEN [files |-> f, final_pdf |-> None]
            ELSE [files |-> write_file(f, output_pdf,
                                merged_pages(f, mir_path,
                                    merge_appends(listdir(d, f, mir_path), 1))),
                  final_pdf |-> output_pdf]

----------------------------------------------------------------------------
(* Document Generators.  create_mir calls generate_mir_cover_page and     *)
(* generate_panel_list_pdf, whose definitions are not in src/main.py;     *)
(* they are modelled from the design: each writes one PDF into the        *)
(* package's source_files folder, named with the token the Merger orders  *)
(* by.                                                                    *)

generate_mir_cover_page(d, f, tbl, project_id, mir_number, panel_ids) ==
    LET path == merge_base_path(tbl[project_id].project_code,
                                project_id, mir_number)
                \o <<<<"s", "o", "u", "r", "c", "e", "_", "f", "i", "l", "e", "s">>, <<"M", "I", "R", "_", "F", "O", "R", "M", "_", "c", "o", "v", "e", "r", ".", "p", "d", "f">>>>
    IN  write_file(f, path, <<path>>)

generate_panel_list_pdf(d, f, tbl, project_id, mir_number, panel_ids) ==
    LET path == merge_base_path(tbl[project_id].project_code,
                                project_id, mir_number)
                \o <<<<"s", "o", "u", "r", "c", "e", "_", "f", "i", "l", "e", "s">>, <<"P", "A", "N", "E", "L", "_", "L", "I", "S", "T", "_", "x", ".", "p", "d", "f">>>>
    IN  write_file(f, path, <<path>>)

----------------------------------------------------------------------------
(* Inputs *)

Requests ==
    1..NumRequests

ProjectCodes ==
    {<<"P", "C">>, <<"1">>}

PanelLists ==
    {<<<<"P", "1">>>>, <<<<"P", "1">>, <<"P", "1", "_", "c", "h", "e", "c", "k", "l", "i", "s", "t", "s">>>>}

\* documents that may lie under storage/project_1/production_logs:
\* <<panel folder, subfolder, filename>>
Documents ==
    {<<<<"P", "1">>, <<"c", "h", "e", "c", "k", "l", "i", "s", "t", "s">>, <<"c", "h", "e", "c", "k", "l", "i", "s", "t", "s", "_", "a", ".", "p", "d", "f">>>>,
     <<<<"P", "1", "_", "c", "h", "e", "c", "k", "l", "i", "s", "t", "s">>, <<"c", "h", "e", "c", "k", "l", "i", "s", "t", "s">>, <<"a", ".", "p", "d", "f">>>>,
     <<<<"P", "1">>, <<"p", "h", "o", "t", "o", "s">>, <<"P", "H", "O", "T", "O", "_", "1", ".", "p", "d", "f">>>>}

document_path(doc) ==
    project_folder(1) \o <<<<"p", "r", "o", "d", "u", "c", "t", "i", "o", "n", "_", "l", "o", "g", "s">>, doc[1], doc[2], doc[3]>>

\* names a staging directory may hold when a pipeline function is called
\* directly
StagingNames ==
    {<<"P", "H", "O", "T", "O", "_", "2", ".", "p", "d", "f">>, <<"C", "H", "E", "C", "K", "L", "I", "S", "T", "_", "b", ".", "p", "d", "f">>, <<"M", "I", "R", "_", "F", "O", "R", "M", "_", "c", "o", "v", "e", "r", ".", "p", "d", "f">>, <<"C", "H", "E", "C", "K", "L", "I", "S", "T", "_", "a", ".", "p", "d", "f">>,
     <<"P", "A", "N", "E", "L", "_", "L", "I", "S", "T", "_", "x", ".", "p", "d", "f">>, <<"r", "a", "n", "d", "o", "m", ".", "p", "d", "f">>, <<"C", "H", "E", "C", "K", "L", "I", "S", "T", "_", "P", "H", "O", "T", "O", "_", "1", ".", "p", "d", "f">>, <<"M", "I", "R", "_", "F", "O", "R", "M", "_", "x", ".", "t", "x", "t">>}

NoCall ==
    [op |-> "none", project_id |-> 0, before_dirs |-> {},
     before_files |-> {}, raised |-> FALSE, final_pdf |-> None]

NoArgs ==
    [project_id |-> 0, panel_ids |-> <<>>, mir_number |-> None,
     mir_id |-> 0, final_pdf |-> None]

NoResponse ==
    [mir_number |-> None, status |-> "", folder_created |-> FALSE,
     pdf_merged |-> FALSE]

----------------------------------------------------------------------------
(* The service: create_project and create_mir requests *)

Init ==
    /\ project = <<>>
    /\ mir_master = <<>>
    /\ mir_panel = <<>>
    /\ dirs = {}
    /\ files = <<>>
    /\ pc = [r \in Requests |-> "idle"]
    /\ call = [r \in Requests |-> NoArgs]
    /\ resp = [r \in Requests |-> NoResponse]
    /\ last_call = NoCall

\* POST /projects
create_project(code) ==
    /\ Len(project) < MaxProjects
    /\ \A i \in 1..Len(project) : project[i].project_code # code
    /\ project' = Append(project, [id |-> Len(project) + 1, project_code |-> code])
    /\ dirs' = makedirs(makedirs(dirs,
                   project_folder(Len(project) + 1) \o <<<<"p", "r", "o", "d", "u", "c", "t", "i", "o", "n", "_", "l", "o", "g", "s">>>>),
                   project_folder(Len(project) + 1) \o <<<<"M", "I", "R">>>>)
    /\ UNCHANGED <<mir_master, mir_panel, files, pc, call, resp, last_call>>

\* the environment: a document arrives in a panel's production-log folder
\* of project 1, where attach_documents_to_mir looks for it
place_document(doc) ==
    /\ HasProject(project, 1)
    /\ document_path(doc) \notin DOMAIN files
    /\ dirs' = makedirs(dirs, SubSeq(document_path(doc), 1, Len(document_path(doc)) - 1))
    /\ files' = write_file(files, document_path(doc), <<document_path(doc)>>)
    /\ UNCHANGED <<project, mir_master, mir_panel, pc, call, resp, last_call>>

\* POST /projects/{project_id}/mir, the project is not found: HTTP 404
create_mir_not_found(r, project_id) ==
    /\ pc[r] = "idle"
    /\ ~HasProject(project, project_id)
    /\ pc' = [pc EXCEPT ![r] = "not_found"]
    /\ UNCHANGED <<project, mir_master, mir_panel, dirs, files, call, resp, last_call>>

\* the project query and generate_mir_number
create_mir_generate(r, project_id, panel_ids) ==
    /\ pc[r] = "idle"
    /\ HasProject(project, project_id)
    /\ call' = [call EXCEPT ![r] =
                  [project_id |-> project_id,
                   panel_ids  |-> panel_ids,
                   mir_number |-> generate_mir_number(
                                      project[project_id].project_code, mir_master),
                   mir_id     |-> 0,
                   final_pdf  |-> None]]
    /\ pc' = [pc EXCEPT ![r] = "insert"]
    /\ UNCHANGED <<project, mir_master, mir_panel, dirs, files, resp, last_call>>

\* db.add(mir); db.commit(); db.refresh(mir); an IntegrityError ends the
\* request and drops its locals
create_mir_insert(r) ==
    /\ pc[r] = "insert"
    /\ IF UniqueViolation(mir_master, call[r].mir_number)
       THEN /\ pc' = [pc EXCEPT ![r] = "integrity_error"]
            /\ call' = [call EXCEPT ![r] = NoArgs]
            /\ UNCHANGED mir_master
       ELSE /\ mir_master' = Append(mir_master,
                                [id         |-> Len(mir_master) + 1,
                                 project_id |-> call[r].project_id,
                                 mir_number |-> call[r].mir_number,
                                 status     |-> "Draft"])
            /\ call' = [call EXCEPT ![r].mir_id = Len(mir_master) + 1]
            /\ pc' = [pc EXCEPT ![r] = "panels"]
    /\ UNCHANGED <<project, mir_panel, dirs, files, resp, last_call>>

\* the MIRPanel rows
create_mir_panels(r) ==
    /\ pc[r] = "panels"
    /\ mir_panel' = mir_panel
                    \o [i \in 1..Len(call[r].panel_ids) |->
                          [mir_id   |-> call[r].mir_id,
                           panel_id |-> call[r].panel_ids[i]]]
    /\ pc' = [pc EXCEPT ![r] = "folder"]
    /\ UNCHANGED <<project, mir_master, dirs, files, call, resp, last_call>>

create_mir_provision(r) ==
    /\ pc[r] = "folder"
    /\ LET made == create_mir_folder(dirs, files, project, call[r].project_id,
                                     call[r].mir_number, call[r].panel_ids)
       IN  /\ dirs' = made.dirs
           /\ files' = made.files
           /\ pc' = [pc EXCEPT ![r] = IF made.raised THEN "os_error" ELSE "cover"]
    /\ UNCHANGED <<project, mir_master, mir_panel, call, resp, last_call>>

create_mir_cover_page(r) ==
    /\ pc[r] = "cover"
    /\ files' = generate_mir_cover_page(dirs, files, project, call[r].project_id,
                                        call[r].mir_number, call[r].panel_ids)
    /\ pc' = [pc EXCEPT ![r] = "panel_list"]
    /\ UNCHANGED <<project, mir_master, mir_panel, dirs, call, resp, last_call>>

create_mir_panel_list(r) ==
    /\ pc[r] = "panel_list"
    /\ files' = generate_panel_list_pdf(dirs, files, project, call[r].project_id,
                                        call[r].mir_number, call[r].panel_ids)
    /\ pc' = [pc EXCEPT ![r] = "attach"]
    /\ UNCHANGED <<project, mir_master, mir_panel, dirs, call, resp, last_call>>

create_mir_attach(r) ==
    /\ pc[r] = "attach"
    /\ LET got == attach_documents_to_mir(dirs, files, call[r].project_id,
                                          call[r].mir_number, call[r].panel_ids)
       IN  /\ dirs' = got.dirs
           /\ files' = got.files
           /\ pc' = [pc EXCEPT ![r] = IF got.raised THEN "os_error" ELSE "merge"]
    /\ UNCHANGED <<project, mir_master, mir_panel, call, resp, last_call>>

create_mir_merge(r) ==
    /\ pc[r] = "merge"
    /\ LET got == merge_mir_pdfs(dirs, files, project, call[r].project_id,
                                 call[r].mir_number)
       IN  /\ files' = got.files
           /\ call' = [call EXCEPT ![r].final_pdf = got.final_pdf]
    /\ pc' = [pc EXCEPT ![r] = "status"]
    /\ UNCHANGED <<project, mir_master, mir_panel, dirs, resp, last_call>>

\* the two statuses exchanged
mir_status_swapped(final_pdf) ==
    IF final_pdf # None THEN "Ready" ELSE "Final"

\* mir.status = "Final" if final_pdf else "Ready"
mir_status(final_pdf) ==
    IF final_pdf # None THEN "Final" ELSE "Ready"

\* the status update, its commit and the response
create_mir_status(r) ==
    /\ pc[r] = "status"
    /\ mir_master' = [mir_master EXCEPT ![call[r].mir_id].status =
                          mir_status(call[r].final_pdf)]
    /\ resp' = [resp EXCEPT ![r] =
                  [mir_number     |-> call[r].mir_number,
                   status         |-> mir_status(call[r].final_pdf),
                   folder_created |-> TRUE,
                   pdf_merged     |-> call[r].final_pdf # None]]
    /\ pc' = [pc EXCEPT ![r] = "done"]
    /\ UNCHANGED <<project, mir_panel, dirs, files, call, last_call>>

Next ==
    \/ \E code \in ProjectCodes : create_project(code)
    \/ \E doc \in Documents : place_document(doc)
    \/ \E r \in Requests, project_id \in 1..MaxProjects :
          create_mir_not_found(r, project_id)
    \/ \E r \in Requests, project_id \in 1..MaxProjects, panel_ids \in PanelLists :
          create_mir_generate(r, project_id, panel_ids)
    \/ \E r \in Requests : create_mir_insert(r)
    \/ \E r \in Requests : create_mir_panels(r)
    \/ \E r \in Requests : create_mir_provision(r)
    \/ \E r \in Requests : create_mir_cover_page(r)
    \/ \E r \in Requests : create_mir_panel_list(r)
    \/ \E r \in Requests : create_mir_attach(r)
    \/ \E r \in Requests : create_mir_merge(r)
    \/ \E r \in Requests : create_mir_status(r)

Spec ==
    Init /\ [][Next]_vars

----------------------------------------------------------------------------
(* Direct calls: create_mir_folder and merge_mir_pdfs applied to a drawn   *)
(* filesystem, for what they guarantee on every package and every staging  *)
(* directory, not only on those one create_mir request builds.             *)

DirectProjects ==
    <<[id |-> 1, project_code |-> <<"P", "C">>]>>

DirectMirNumber ==
    <<"M", "I", "R", "-", "0", "0", "0", "1">>

DirectPackage ==
    merge_base_path(<<"P", "C">>, 1, DirectMirNumber)

\* the project folders create_project made
DirectBaseDirs ==
    makedirs(makedirs({}, project_folder(1) \o <<<<"p", "r", "o", "d", "u", "c", "t", "i", "o", "n", "_", "l", "o", "g", "s">>>>),
             project_folder(1) \o <<<<"M", "I", "R">>>>)

\* layout "absent": no package; "staging": the package with source_files
\* only; "package": the package as create_mir_folder leaves it
DirectDirs(layout) ==
    DirectBaseDirs
    \cup (IF layout = "absent" THEN {}
          ELSE Prefixes(DirectPackage \o <<<<"s", "o", "u", "r", "c", "e", "_", "f", "i", "l", "e", "s">>>>))
    \cup (IF layout = "package"
          THEN {DirectPackage \o <<<<"m", "e", "r", "g", "e", "d", "_", "p", "d", "f">>>>, DirectPackage \o <<<<"f", "i", "n", "a", "l", "_", "m", "i", "r">>>>}
          ELSE {})

DirectFiles(layout, staged) ==
    LET paths == {DirectPackage \o <<<<"s", "o", "u", "r", "c", "e", "_", "f", "i", "l", "e", "s">>, n>> : n \in staged}
                 \cup (IF layout = "package"
                       THEN {DirectPackage \o <<<<"i", "n", "d", "e", "x", ".", "t", "x", "t">>>>}
                       ELSE {})
    IN  [p \in paths |-> <<p>>]

DirectInit ==
    /\ project = DirectProjects
    /\ mir_master = <<>>
    /\ mir_panel = <<>>
    /\ \E layout \in {"absent", "staging", "package"} :
       \E staged \in SUBSET StagingNames :
          /\ layout = "absent" => staged = {}
          /\ dirs = DirectDirs(layout)
          /\ files = DirectFiles(layout, staged)
    /\ pc = [r \in Requests |-> "idle"]
    /\ call = [r \in Requests |-> NoArgs]
    /\ resp = [r \in Requests |-> NoResponse]
    /\ last_call = NoCall

call_create_mir_folder(project_id, panel_ids) ==
    /\ LET made == create_mir_folder(dirs, files, project, project_id,
                                     DirectMirNumber, panel_ids)
       IN  /\ dirs' = made.dirs
           /\ files' = made.files
           /\ last_call' = [op           |-> "create_mir_folder",
                            project_id   |-> project_id,
                            before_dirs  |-> dirs,
                            before_files |-> DOMAIN files,
                            raised       |-> made.raised,
                            final_pdf    |-> None]
    /\ UNCHANGED <<project, mir_master, mir_panel, pc, call, resp>>

call_merge_mir_pdfs(project_id) ==
    /\ LET got == merge_mir_pdfs(dirs, files, project, project_id, DirectMirNumber)
       IN  /\ files' = got.files
           /\ last_call' = [op           |-> "merge_mir_pdfs",
                            project_id   |-> project_id,
                            before_dirs  |-> dirs,
                            before_files |-> DOMAIN files,
                            raised       |-> FALSE,
                            final_pdf    |-> got.final_pdf]
    /\ UNCHANGED <<project, mir_master, mir_panel, dirs, pc, call, resp>>

DirectNext ==
    \/ \E project_id \in 1..MaxProjects, panel_ids \in PanelLists :
          call_create_mir_folder(project_id, panel_ids)
    \/ \E project_id \in 1..MaxProjects : call_merge_mir_pdfs(project_id)

DirectSpec ==
    DirectInit /\ [][DirectNext]_vars

----------------------------------------------------------------------------
(* Definitions shared by the properties *)

Range(s) ==
    {s[i] : i \in 1..Len(s)}

\* the request has stored its MIRMaster row
Stored(r) ==
    call[r].mir_id # 0

\* the package <project_code>-<report_number> of a request
Package(r) ==
    project_folder(call[r].project_id)
    \o <<<<"M", "I", "R">>, project[call[r].project_id].project_code \o <<"-">> \o call[r].mir_number>>

\* the documents lying under the panels of a request, in filesystem f:
\* <<panel, subfolder, filename>>
Found(d, f, r) ==
    UNION {UNION {{<<panel, sub, n>> :
                      n \in {m \in listdir(d, f, project_folder(call[r].project_id)
                                                 \o <<<<"p", "r", "o", "d", "u", "c", "t", "i", "o", "n", "_", "l", "o", "g", "s">>, panel, sub>>) :
                                (project_folder(call[r].project_id)
                                 \o <<<<"p", "r", "o", "d", "u", "c", "t", "i", "o", "n", "_", "l", "o", "g", "s">>, panel, sub, m>>) \in DOMAIN f}} :
                   sub \in Range(doc_subfolders)} :
           panel \in Range(call[r].panel_ids)}

FoundPath(r, t) ==
    project_folder(call[r].project_id) \o <<<<"p", "r", "o", "d", "u", "c", "t", "i", "o", "n", "_", "l", "o", "g", "s">>, t[1], t[2], t[3]>>

\* the five markers, in the order the design gives them
Markers ==
    <<<<"M", "I", "R", "_", "F", "O", "R", "M", "_">>, <<"P", "A", "N", "E", "L", "_", "L", "I", "S", "T", "_">>, <<"C", "H", "E", "C", "K", "L", "I", "S", "T">>, <<"D", "R", "A", "W", "I", "N", "G", "_">>, <<"P", "H", "O", "T", "O">>>>

----------------------------------------------------------------------------
(* C1: for every project, generate_mir_number returns MIR-0001 when the    *)
(* project has no MIR record, and otherwise the number one greater than    *)
(* the number of the project's most recently stored record, as MIR-NNNN.   *)
(* The code fails it: the stored numbers carry no project code, the LIKE   *)
(* pattern <project_code>-MIR-% matches none of them, and the Sequencer    *)
(* returns MIR-0001 again.                                                 *)

C1_ExpectedNumber(p) ==
    LET mine == {i \in 1..Len(mir_master) : mir_master[i].project_id = p}
        last == CHOOSE i \in mine : \A j \in mine : j <= i
    IN  IF mine = {} THEN 1
        ELSE int(SubSeq(mir_master[last].mir_number, 5,
                        Len(mir_master[last].mir_number))) + 1

\* C1: the Sequencer returns the successor of the project's last stored
\* number, MIR-0001 without one
C1_SequencerReturnsSuccessor ==
    \A p \in 1..Len(project) :
        generate_mir_number(project[p].project_code, mir_master)
            = <<"M", "I", "R", "-">> \o ZeroPad(Str(C1_ExpectedNumber(p)), 4)

----------------------------------------------------------------------------
(* C2: two create_mir requests for the same project never both end with a  *)
(* stored MIRMaster row carrying the same mir_number, and no two stored    *)
(* rows of a project carry the same mir_number.                            *)

C2_NoTwoRequestsStoreSameNumber ==
    /\ \A r1, r2 \in Requests :
          (r1 # r2 /\ Stored(r1) /\ Stored(r2)
           /\ call[r1].project_id = call[r2].project_id)
          => call[r1].mir_number # call[r2].mir_number
    /\ \A i, j \in 1..Len(mir_master) :
          (i # j /\ mir_master[i].project_id = mir_master[j].project_id)
          => mir_master[i].mir_number # mir_master[j].mir_number

\* two requests passed the lookup of the only project; one stored its row
\* and the insert of the other was refused
C2_Witness ==
    \E r1, r2 \in Requests :
        /\ r1 # r2
        /\ Len(project) = 1
        /\ Stored(r1)
        /\ mir_master[call[r1].mir_id].mir_number = call[r1].mir_number
        /\ pc[r2] = "integrity_error"

----------------------------------------------------------------------------
(* C3: a create_mir request for an existing project with panel list        *)
(* ["P1"], P1 having no documents, does not fail, and its response has     *)
(* status Ready or Final and folder_created true.  The code fails it for   *)
(* every request after the first stored MIR: the Sequencer of C1 returns   *)
(* MIR-0001 again and the insert raises IntegrityError.                    *)

C3_NoDocumentsForP1 ==
    \A doc \in Documents : doc[1] = <<"P", "1">> => document_path(doc) \notin DOMAIN files

\* C3: no step of such a request ends it with an error, and its response
\* is Ready or Final with folder_created
C3_PanelWithoutDocumentsCompletes ==
    [][\A r \in Requests :
          (/\ pc[r] \notin {"idle", "not_found"}
           /\ call[r].panel_ids = <<<<"P", "1">>>>
           /\ C3_NoDocumentsForP1)
          => /\ pc'[r] \notin {"integrity_error", "os_error"}
             /\ pc'[r] = "done"
                => /\ resp'[r].status \in {"Ready", "Final"}
                   /\ resp'[r].folder_created]_vars

----------------------------------------------------------------------------
(* C4: merge_mir_pdfs appends PDFs in the group order MIR_FORM_,           *)
(* PANEL_LIST_, CHECKLIST, DRAWING_, PHOTO, lexicographically inside a     *)
(* group; every staged PDF with a marker is appended and a file without    *)
(* any marker never is; the staging of the design's example gives          *)
(* MIR_FORM_cover, PANEL_LIST_x, CHECKLIST_a, CHECKLIST_b, PHOTO_2.        *)

C4_Staged ==
    listdir(dirs, files, DirectPackage \o <<<<"s", "o", "u", "r", "c", "e", "_", "f", "i", "l", "e", "s">>>>)

\* the names of the files whose pages make up FINAL_MIR.pdf, in order
C4_Output ==
    LET out == files[DirectPackage \o <<<<"F", "I", "N", "A", "L", "_", "M", "I", "R", ".", "p", "d", "f">>>>]
    IN  [i \in 1..Len(out) |-> Last(out[i])]

C4_ExampleStaging ==
    {<<"P", "H", "O", "T", "O", "_", "2", ".", "p", "d", "f">>, <<"C", "H", "E", "C", "K", "L", "I", "S", "T", "_", "b", ".", "p", "d", "f">>, <<"M", "I", "R", "_", "F", "O", "R", "M", "_", "c", "o", "v", "e", "r", ".", "p", "d", "f">>, <<"C", "H", "E", "C", "K", "L", "I", "S", "T", "_", "a", ".", "p", "d", "f">>,
     <<"P", "A", "N", "E", "L", "_", "L", "I", "S", "T", "_", "x", ".", "p", "d", "f">>, <<"r", "a", "n", "d", "o", "m", ".", "p", "d", "f">>}

C4_ExampleOutput ==
    <<<<"M", "I", "R", "_", "F", "O", "R", "M", "_", "c", "o", "v", "e", "r", ".", "p", "d", "f">>, <<"P", "A", "N", "E", "L", "_", "L", "I", "S", "T", "_", "x", ".", "p", "d", "f">>, <<"C", "H", "E", "C", "K", "L", "I", "S", "T", "_", "a", ".", "p", "d", "f">>,
      <<"C", "H", "E", "C", "K", "L", "I", "S", "T", "_", "b", ".", "p", "d", "f">>, <<"P", "H", "O", "T", "O", "_", "2", ".", "p", "d", "f">>>>

----------------------------------------------------------------------------
(* C5: attach_documents_to_mir copies every file found under the           *)
(* checklists, drawings and photos subfolders of the MIR's panels into     *)
(* source_files of the package <project_code>-<report_number>, named       *)
(* <panel_id>_<subfolder>_<original_filename>; a missing folder raises     *)
(* nothing and copies nothing.  The code fails it: it copies into          *)
(* <project_id>-<report_number>/source_files.                              *)

C5_CollectorFillsPackageStaging ==
    [][\A r \in Requests :
          (pc[r] = "attach" /\ pc'[r] # "attach")
          => /\ pc'[r] = "merge"
             /\ \A t \in Found(dirs, files, r) :
                   LET dest == Package(r)
                               \o <<<<"s", "o", "u", "r", "c", "e", "_", "f", "i", "l", "e", "s">>,
                                    t[1] \o <<"_">> \o t[2] \o <<"_">> \o t[3]>>
                   IN  /\ dest \in DOMAIN files'
                       /\ files'[dest] = files[FoundPath(r, t)]
             /\ Cardinality(DOMAIN files' \ DOMAIN files)
                   <= Cardinality(Found(dirs, files, r))]_vars

----------------------------------------------------------------------------
(* C6 as amended: a MIRMaster row is Draft from its insertion until the    *)
(* last step of create_mir; that step sets Final exactly when the merge    *)
(* produced FINAL_MIR.pdf and Ready otherwise; the merge of create_mir     *)
(* always finds the staging directory create_mir_folder made, so every     *)
(* completed create_mir ends Final and no row is ever Ready; a row never   *)
(* returns to Draft.                                                       *)

C6_StatusLifecycle ==
    /\ [](\A i \in 1..Len(mir_master) :
             /\ mir_master[i].status \in {"Draft", "Final"}
             /\ \E r \in Requests :
                   /\ call[r].mir_id = i
                   /\ pc[r] # "done" => mir_master[i].status = "Draft"
                   /\ pc[r] = "done"
                      => /\ mir_master[i].status = "Final"
                            <=> (Package(r) \o <<<<"F", "I", "N", "A", "L", "_", "M", "I", "R", ".", "p", "d", "f">>>>) \in DOMAIN files
                         /\ mir_master[i].status = "Ready"
                            <=> (Package(r) \o <<<<"F", "I", "N", "A", "L", "_", "M", "I", "R", ".", "p", "d", "f">>>>) \notin DOMAIN files)
    /\ [][\A i \in 1..Len(mir_master) :
             mir_master[i].status # "Draft" => mir_master'[i].status # "Draft"]_vars

\* a create_mir has completed and its row is Final
C6_Witness ==
    \E r \in Requests :
        /\ pc[r] = "done"
        /\ mir_master[call[r].mir_id].status = "Final"
        /\ (Package(r) \o <<<<"F", "I", "N", "A", "L", "_", "M", "I", "R", ".", "p", "d", "f">>>>) \in DOMAIN files

\* the status create_mir ends with when it runs alone from filesystem
\* (d, f): lines 346 to 354 in order
C6_Outcome(d, f, tbl, project_id, mir_number, panel_ids) ==
    LET made   == create_mir_folder(d, f, tbl, project_id, mir_number, panel_ids)
        cover  == generate_mir_cover_page(made.dirs, made.files, tbl, project_id,
                                          mir_number, panel_ids)
        plist  == generate_panel_list_pdf(made.dirs, cover, tbl, project_id,
                                          mir_number, panel_ids)
        got    == attach_documents_to_mir(made.dirs, plist, project_id,
                                          mir_number, panel_ids)
        merged == merge_mir_pdfs(got.dirs, got.files, tbl, project_id, mir_number)
    IN  mir_status(merged.final_pdf)

\* the project tables, and the filesystems the service has before a
\* create_mir: the project folders and a set of documents
C6_Tables ==
    {<<[id |-> 1, project_code |-> c]>> : c \in ProjectCodes}
    \cup {<<[id |-> 1, project_code |-> c1], [id |-> 2, project_code |-> c2]>> :
             <<c1, c2>> \in {x \in ProjectCodes \X ProjectCodes : x[1] # x[2]}}

C6_Dirs(tbl, docs) ==
    UNION {Prefixes(project_folder(i) \o <<<<"p", "r", "o", "d", "u", "c", "t", "i", "o", "n", "_", "l", "o", "g", "s">>>>)
           \cup Prefixes(project_folder(i) \o <<<<"M", "I", "R">>>>) : i \in 1..Len(tbl)}
    \cup UNION {Prefixes(SubSeq(document_path(doc), 1, 5)) : doc \in docs}

C6_Files(docs) ==
    [p \in {document_path(doc) : doc \in docs} |-> <<p>>]

C6_Outcomes ==
    {C6_Outcome(C6_Dirs(x[1], x[2]), C6_Files(x[2]), x[1], x[3],
                generate_mir_number(x[1][x[3]].project_code, <<>>), x[4]) :
        x \in {y \in C6_Tables
                     \X (SUBSET Documents)
                     \X (1..MaxProjects)
                     \X PanelLists : HasProject(y[1], y[3])}}

(* C6 as stated: a row is Draft until the last step, which sets Final      *)
(* exactly when the merge produced an output file and Ready exactly when   *)
(* it produced none, and both Ready and Final are outcomes create_mir      *)
(* has.  Ready is no outcome of create_mir.                                *)
C6_ReadyAndFinalAreOutcomes ==
    /\ \A i \in 1..Len(mir_master) :
          \E r \in Requests :
             /\ call[r].mir_id = i
             /\ pc[r] # "done" => mir_master[i].status = "Draft"
             /\ pc[r] = "done"
                => (mir_master[i].status = "Final"
                    <=> (Package(r) \o <<<<"F", "I", "N", "A", "L", "_", "M", "I", "R", ".", "p", "d", "f">>>>) \in DOMAIN files)
    /\ "Final" \in C6_Outcomes
    /\ "Ready" \in C6_Outcomes

----------------------------------------------------------------------------
(* C7: create_mir_folder called on a package that already exists raises    *)
(* nothing and removes nothing: every directory and file present before    *)
(* the call is present after it, and so are source_files, merged_pdf,      *)
(* final_mir and index.txt.                                                *)

C7_ProvisionerKeepsPackage ==
    (/\ last_call.op = "create_mir_folder"
     /\ HasProject(project, last_call.project_id)
     /\ DirectPackage \in last_call.before_dirs)
    => /\ ~last_call.raised
       /\ last_call.before_dirs \subseteq dirs
       /\ last_call.before_files \subseteq DOMAIN files
       /\ \A s \in {<<"s", "o", "u", "r", "c", "e", "_", "f", "i", "l", "e", "s">>, <<"m", "e", "r", "g", "e", "d", "_", "p", "d", "f">>, <<"f", "i", "n", "a", "l", "_", "m", "i", "r">>} :
             (DirectPackage \o <<s>>) \in dirs
       /\ (DirectPackage \o <<<<"i", "n", "d", "e", "x", ".", "t", "x", "t">>>>) \in DOMAIN files

\* the call was made on an existing package that held staged files and an
\* index.txt
C7_Witness ==
    /\ last_call.op = "create_mir_folder"
    /\ HasProject(project, last_call.project_id)
    /\ (DirectPackage \o <<<<"i", "n", "d", "e", "x", ".", "t", "x", "t">>>>) \in last_call.before_files
    /\ (DirectPackage \o <<<<"s", "o", "u", "r", "c", "e", "_", "f", "i", "l", "e", "s">>, <<"C", "H", "E", "C", "K", "L", "I", "S", "T", "_", "a", ".", "p", "d", "f">>>>) \in last_call.before_files
    /\ ~last_call.raised

----------------------------------------------------------------------------
(* C8: the documents copied for one MIR get distinct destination names:    *)
(* two distinct (panel, subfolder, filename) have distinct                 *)
(* <panel>_<subfolder>_<filename>, and every copy is in the collector's    *)
(* folder afterwards.  The code fails it: panel P1 with                    *)
(* checklists/checklists_a.pdf and panel P1_checklists with                *)
(* checklists/a.pdf both give P1_checklists_checklists_a.pdf.              *)

C8_DestinationNamesDistinct ==
    [][\A r \in Requests :
          (pc[r] = "attach" /\ pc'[r] = "merge")
          => /\ \A t1, t2 \in Found(dirs, files, r) :
                   t1 # t2 => dest_filename(t1[1], t1[2], t1[3])
                              # dest_filename(t2[1], t2[2], t2[3])
             /\ \A t \in Found(dirs, files, r) :
                   files'[attach_source_files_folder(call[r].project_id,
                                                     call[r].mir_number)
                          \o <<dest_filename(t[1], t[2], t[3])>>]
                      = files[FoundPath(r, t)]]_vars

----------------------------------------------------------------------------
(* C9: when create_mir has completed, every PDF the Document Collector     *)
(* copied is part of the MIR's FINAL_MIR.pdf.  The code fails it: the      *)
(* copies lie in <project_id>-<report_number>/source_files, which the      *)
(* Merger does not read (C5), and a copy named <panel>_checklists_a.pdf    *)
(* carries none of the Merger's upper-case markers.                        *)

C9_Copied(r) ==
    {p \in DOMAIN files :
        /\ SubSeq(p, 1, Len(p) - 1)
              = attach_source_files_folder(call[r].project_id, call[r].mir_number)
        /\ EndsWith(Last(p), <<".", "p", "d", "f">>)
        /\ \E doc \in Documents : files[p] = <<document_path(doc)>>}

\* C9: the pages of every copied PDF are pages of FINAL_MIR.pdf
C9_CopiedPdfsAreMerged ==
    \A r \in Requests :
        pc[r] = "done"
        => \A p \in C9_Copied(r) :
              /\ (Package(r) \o <<<<"F", "I", "N", "A", "L", "_", "M", "I", "R", ".", "p", "d", "f">>>>) \in DOMAIN files
              /\ files[p][1] \in Range(files[Package(r) \o <<<<"F", "I", "N", "A", "L", "_", "M", "I", "R", ".", "p", "d", "f">>>>])

----------------------------------------------------------------------------
(* C10: merge_mir_pdfs appends each staged PDF at most once.  The code     *)
(* fails it: a file whose name holds two markers is appended once per      *)
(* marker.                                                                 *)

C10_AppendedAtMostOnce ==
    (last_call.op = "merge_mir_pdfs" /\ last_call.final_pdf # None)
    => \A i, j \in 1..Len(C4_Output) :
          i # j => C4_Output[i] # C4_Output[j]

====
